---- MODULE Spec2Model ----
(***************************************************************************)
(* Model of the name-case conversion engine of src/src/index.ts:           *)
(* NameCaseConverter (constructor, toString, parseWord, toTitleCase,       *)
(* setGlobalOptions), the IgnoreRule and Converter values and the table    *)
(* of built-in converters.                                                 *)
(*                                                                         *)
(* A JavaScript string is a sequence of one-character strings; a RegExp    *)
(* is a syntax tree that RegexTest interprets.                             *)
(***************************************************************************)
EXTENDS Integers, Sequences, FiniteSets

VARIABLES
  globalOptions,   \* NameCaseConverter.globalOptions (static field)
  engine,          \* the NameCaseConverter instance last constructed
  pc,              \* "idle" | "constructed" | "done" | "titled"
  result,          \* the string returned by the last toString / toTitleCase
  trace,           \* one record per token parsed by the last toString
  written,         \* the arguments of the setGlobalOptions calls made so far
  call             \* the arguments of the last constructor / toTitleCase call, and
                   \* how many setGlobalOptions calls preceded it and its toString

vars == <<globalOptions, engine, pc, result, trace, written, call>>

----------------------------------------------------------------------------
(* Characters and the String methods the code uses.                        *)

LowerLetters ==
  <<"a","b","c","d","e","f","g","h","i","j","k","l","m",
    "n","o","p","q","r","s","t","u","v","w","x","y","z">>

UpperLetters ==
  <<"A","B","C","D","E","F","G","H","I","J","K","L","M",
    "N","O","P","Q","R","S","T","U","V","W","X","Y","Z">>

Range(f) == {f[i] : i \in DOMAIN f}

LowerSet == Range(LowerLetters)
UpperSet == Range(UpperLetters)
LetterSet == LowerSet \cup UpperSet

\* the characters \s matches and trim() removes (the ones the model uses)
WhiteSpace == {" ", "\t", "\n"}

UpperOf == [c \in LowerSet |-> UpperLetters[CHOOSE i \in 1..26 : LowerLetters[i] = c]]
LowerOf == [c \in UpperSet |-> LowerLetters[CHOOSE i \in 1..26 : UpperLetters[i] = c]]

ToUpperChar(c) == IF c \in LowerSet THEN UpperOf[c] ELSE c
ToLowerChar(c) == IF c \in UpperSet THEN LowerOf[c] ELSE c

\* String.prototype.toUpperCase / toLowerCase
toUpperCase(s) == [i \in 1..Len(s) |-> ToUpperChar(s[i])]
toLowerCase(s) == [i \in 1..Len(s) |-> ToLowerChar(s[i])]

\* String.prototype.charAt: the empty string when the index is out of range
charAt(s, i) == IF i + 1 <= Len(s) THEN <<s[i + 1]>> ELSE <<>>

\* String.prototype.substring(from, to), 0-based, for 0 <= from and to = length
substring(s, from, to) ==
  IF from >= to \/ from >= Len(s) THEN <<>> ELSE SubSeq(s, from + 1, IF to > Len(s) THEN Len(s) ELSE to)

RECURSIVE TrimLeft(_)
TrimLeft(s) == IF s # <<>> /\ Head(s) \in WhiteSpace THEN TrimLeft(Tail(s)) ELSE s

RECURSIVE TrimRight(_)
TrimRight(s) ==
  IF s # <<>> /\ s[Len(s)] \in WhiteSpace THEN TrimRight(SubSeq(s, 1, Len(s) - 1)) ELSE s

\* String.prototype.trim
trim(s) == TrimRight(TrimLeft(s))

\* split(/\s/): a piece ends at every whitespace character
RECURSIVE SplitWsEachFrom(_, _, _, _)
SplitWsEachFrom(s, i, cur, out) ==
  IF i > Len(s) THEN Append(out, cur)
  ELSE IF s[i] \in WhiteSpace
       THEN SplitWsEachFrom(s, i + 1, <<>>, Append(out, cur))
       ELSE SplitWsEachFrom(s, i + 1, Append(cur, s[i]), out)

splitWhitespace_EachChar(s) == SplitWsEachFrom(s, 1, <<>>, <<>>)

\* String.prototype.split(/\s+/): the pieces between the maximal whitespace runs
RECURSIVE SplitWsFrom(_, _, _, _)
SplitWsFrom(s, i, cur, out) ==
  IF i > Len(s) THEN Append(out, cur)
  ELSE IF s[i] \in WhiteSpace
       THEN IF i > 1 /\ s[i - 1] \in WhiteSpace
            THEN SplitWsFrom(s, i + 1, cur, out)
            ELSE SplitWsFrom(s, i + 1, <<>>, Append(out, cur))
       ELSE SplitWsFrom(s, i + 1, Append(cur, s[i]), out)

splitWhitespace(s) == SplitWsFrom(s, 1, <<>>, <<>>)

\* String.prototype.split(sep) for a one-character separator
RECURSIVE SplitCharFrom(_, _, _, _, _)
SplitCharFrom(s, sep, i, cur, out) ==
  IF i > Len(s) THEN Append(out, cur)
  ELSE IF s[i] = sep
       THEN SplitCharFrom(s, sep, i + 1, <<>>, Append(out, cur))
       ELSE SplitCharFrom(s, sep, i + 1, Append(cur, s[i]), out)

splitChar(s, sep) == SplitCharFrom(s, sep, 1, <<>>, <<>>)

\* Array.prototype.join
RECURSIVE join(_, _)
join(parts, sep) ==
  IF parts = <<>> THEN <<>>
  ELSE IF Len(parts) = 1 THEN parts[1]
  ELSE parts[1] \o sep \o join(Tail(parts), sep)

\* the decimal digits of a small index, as `${i}` prints it
Digits == <<"0","1","2","3","4","5","6","7","8","9">>
RECURSIVE numberToString(_)
numberToString(n) ==
  IF n < 10 THEN <<Digits[n + 1]>> ELSE numberToString(n \div 10) \o <<Digits[(n % 10) + 1]>>

----------------------------------------------------------------------------
(* Regular expressions.  A node is a tuple whose first element names its   *)
(* kind; RegexEnds gives the positions at which a match that starts at     *)
(* position i can end.  A regex is [node, ignoreCase].                     *)

Chr(S) == <<"set", S>>            \* one character of S
NotChr(S) == <<"nset", S>>        \* one character not in S
Bol == <<"bol">>                  \* ^
Eol == <<"eol">>                  \* $
Cat(ns) == <<"seq", ns>>          \* concatenation
Alt(ns) == <<"alt", ns>>          \* a|b|...
Rep(n, lo, hi) == <<"rep", n, lo, hi>>   \* n{lo,hi}; hi = -1: unbounded
Ahead(n) == <<"ahead", n>>        \* (?=n)

\* a literal string
Lit(s) == Cat([i \in 1..Len(s) |-> Chr({s[i]})])

CharMatches(c, S, ic) ==
  IF ic THEN \E d \in S : ToUpperChar(d) = ToUpperChar(c) ELSE c \in S

RECURSIVE RegexEnds(_, _, _, _)
RECURSIVE SeqEnds(_, _, _, _, _)
RECURSIVE RepEnds(_, _, _, _, _, _, _)

RegexEnds(n, s, i, ic) ==
  CASE n[1] = "set"   -> IF i <= Len(s) /\ CharMatches(s[i], n[2], ic) THEN {i + 1} ELSE {}
    [] n[1] = "nset"  -> IF i <= Len(s) /\ ~CharMatches(s[i], n[2], ic) THEN {i + 1} ELSE {}
    [] n[1] = "bol"   -> IF i = 1 THEN {i} ELSE {}
    [] n[1] = "eol"   -> IF i = Len(s) + 1 THEN {i} ELSE {}
    [] n[1] = "seq"   -> SeqEnds(n[2], 1, s, {i}, ic)
    [] n[1] = "alt"   -> UNION {RegexEnds(n[2][k], s, i, ic) : k \in 1..Len(n[2])}
    [] n[1] = "rep"   -> RepEnds(n[2], 0, n[3], n[4], s, {i}, ic)
    [] n[1] = "ahead" -> IF RegexEnds(n[2], s, i, ic) # {} THEN {i} ELSE {}

SeqEnds(ns, k, s, P, ic) ==
  IF k > Len(ns) \/ P = {} THEN P
  ELSE SeqEnds(ns, k + 1, s, UNION {RegexEnds(ns[k], s, p, ic) : p \in P}, ic)

RepEnds(n, k, lo, hi, s, P, ic) ==
  IF P = {} THEN {}
  ELSE LET here == IF k >= lo THEN P ELSE {}
           more == IF hi # -1 /\ k >= hi THEN {}
                   ELSE UNION {RegexEnds(n, s, p, ic) \ {p} : p \in P}
       IN  here \cup RepEnds(n, k + 1, lo, hi, s, more, ic)

\* RegExp.prototype.test for a regex without the g or y flag: a match anywhere
RegexTest(re, s) == \E i \in 1..(Len(s) + 1) : RegexEnds(re.node, s, i, re.ignoreCase) # {}

----------------------------------------------------------------------------
(* Rule model: IgnoreRule, Converter, NameCaseConverterOptions.            *)

Undefined == [kind |-> "undefined", value |-> FALSE, ids |-> <<>>]
Bool(b) == [kind |-> "boolean", value |-> b, ids |-> <<>>]
Ids(a) == [kind |-> "array", value |-> FALSE, ids |-> a]

NoRegex == [node |-> Eol, ignoreCase |-> FALSE]

\* new IgnoreRule(matcher, caseInsensitive = false)
IgnoreRule(kind, str, strs, re, caseInsensitive) ==
  [kind |-> kind, str |-> str, strs |-> strs, re |-> re, caseInsensitive |-> caseInsensitive]

IgnoreRule_regex(re) == IgnoreRule("regex", <<>>, <<>>, re, FALSE)
IgnoreRule_exact(s) == IgnoreRule("string", s, <<>>, NoRegex, FALSE)
IgnoreRule_exactArray(a) == IgnoreRule("array", <<>>, a, NoRegex, FALSE)
IgnoreRule_insensitive(s) == IgnoreRule("string", s, <<>>, NoRegex, TRUE)
IgnoreRule_insensitiveArray(a) == IgnoreRule("array", <<>>, a, NoRegex, TRUE)

\* createIgnoreRule(matcher, caseInsensitive = false)
createIgnoreRule(kind, str, strs, re, caseInsensitive) ==
  IgnoreRule(kind, str, strs, re, caseInsensitive)

\* the value of a call that ends with an error thrown by an operator: no string
Thrown == <<"Error">>

\* new Converter(regex, operator); the operator is named, ApplyOperator runs it
Converter(regex, operator) == [regex |-> regex, operator |-> operator]

\* enum ConverterId
HYPENATED == 0
MC == 1
MAC == 2
DLO_APOSTRAPHE == 3
ROMAN_NUMERALS == 4

AZaz == Chr(LetterSet)

HyphenRegex == [node |-> Chr({"-"}), ignoreCase |-> FALSE]

McRegex ==
  [node |-> Cat(<<Bol, Chr({"m"}), Chr({"c"}), Rep(AZaz, 1, -1), Eol>>), ignoreCase |-> TRUE]

MacRegex ==
  [node |-> Cat(<<Bol, Chr({"m"}), Chr({"a"}), Chr({"c"}), Rep(AZaz, 1, -1), Eol>>),
   ignoreCase |-> TRUE]

DloRegex == [node |-> Cat(<<Bol, Chr({"l", "d", "o"}), Chr({"'"})>>), ignoreCase |-> TRUE]

\* the Roman-numeral pattern without the i flag
RomanRegex_CaseSensitive ==
  [node |-> Cat(<<Bol, Ahead(Chr({"M", "D", "C", "L", "X", "V", "I"})),
                  Rep(Chr({"M"}), 0, -1),
                  Alt(<<Cat(<<Chr({"C"}), Chr({"M", "D"})>>),
                        Cat(<<Rep(Chr({"D"}), 0, 1), Rep(Chr({"C"}), 0, 3)>>)>>),
                  Alt(<<Cat(<<Chr({"X"}), Chr({"C", "L"})>>),
                        Cat(<<Rep(Chr({"L"}), 0, 1), Rep(Chr({"X"}), 0, 3)>>)>>),
                  Alt(<<Cat(<<Chr({"I"}), Chr({"X", "V"})>>),
                        Cat(<<Rep(Chr({"V"}), 0, 1), Rep(Chr({"I"}), 0, 3)>>)>>),
                  Eol>>),
   ignoreCase |-> FALSE]

RomanRegex ==
  [node |-> Cat(<<Bol, Ahead(Chr({"M", "D", "C", "L", "X", "V", "I"})),
                  Rep(Chr({"M"}), 0, -1),
                  Alt(<<Cat(<<Chr({"C"}), Chr({"M", "D"})>>),
                        Cat(<<Rep(Chr({"D"}), 0, 1), Rep(Chr({"C"}), 0, 3)>>)>>),
                  Alt(<<Cat(<<Chr({"X"}), Chr({"C", "L"})>>),
                        Cat(<<Rep(Chr({"L"}), 0, 1), Rep(Chr({"X"}), 0, 3)>>)>>),
                  Alt(<<Cat(<<Chr({"I"}), Chr({"X", "V"})>>),
                        Cat(<<Rep(Chr({"V"}), 0, 1), Rep(Chr({"I"}), 0, 3)>>)>>),
                  Eol>>),
   ignoreCase |-> TRUE]

\* const defaultConverters: Record<ConverterId, Converter>
defaultConverters ==
  [id \in {HYPENATED, MC, MAC, DLO_APOSTRAPHE, ROMAN_NUMERALS} |->
     CASE id = HYPENATED -> Converter(HyphenRegex, "HYPENATED")
       [] id = MC -> Converter(McRegex, "MC")
       [] id = MAC -> Converter(MacRegex, "MAC")
       [] id = DLO_APOSTRAPHE -> Converter(DloRegex, "DLO_APOSTRAPHE")
       [] id = ROMAN_NUMERALS -> Converter(RomanRegex, "ROMAN_NUMERALS")]

\* the entries of defaultConverters with the Roman numerals first
DefaultEntries_RomanFirst == <<ROMAN_NUMERALS, HYPENATED, MC, MAC, DLO_APOSTRAPHE>>

\* Object.entries(defaultConverters): integer keys in ascending order
DefaultEntries == <<HYPENATED, MC, MAC, DLO_APOSTRAPHE, ROMAN_NUMERALS>>

\* the converter toTitleCase injects for multi-word input
SmallWords ==
  <<  <<"a">>, <<"a","n">>, <<"t","h","e">>, <<"t","o">>, <<"i","n">>, <<"o","n">>,
      <<"o","f">>, <<"f","r","o","m">>, <<"a","n","d">>, <<"w","i","t","h">>  >>

SmallWordRegex ==
  [node |-> Cat(<<Bol, Alt([k \in 1..Len(SmallWords) |-> Lit(SmallWords[k])]), Eol>>),
   ignoreCase |-> TRUE]

SmallWordConverter == Converter(SmallWordRegex, "SMALL_WORD")

WhitespaceRegex == [node |-> Rep(Chr(WhiteSpace), 1, -1), ignoreCase |-> FALSE]

----------------------------------------------------------------------------
(* The conversion engine.  Every operator that reads the static field      *)
(* NameCaseConverter.globalOptions takes its current value as `global`.    *)

Options(ignores, converters, disableDefault) ==
  [ignores |-> ignores, converters |-> converters, disableDefault |-> disableDefault]

\* private static globalOptions: NameCaseConverterOptions = {}
EmptyOptions == Options(<<>>, <<>>, Undefined)

\* private matches(v1, v2, ci)
matches(v1, v2, ci) == IF ci THEN toLowerCase(v1) = toLowerCase(v2) ELSE v1 = v2

\* the filter comparing the ids with ===, which no string key of Object.entries
\* satisfies: an array disables nothing
DefaultEnabled_StrictEquals(disableDefault, id) ==
  IF disableDefault.kind = "array" \/ (disableDefault.kind = "boolean" /\ disableDefault.value)
  THEN IF disableDefault.kind = "boolean" THEN FALSE ELSE TRUE
  ELSE TRUE

\* the filter of the constructor: is the built-in converter `id` kept?
DefaultEnabled(disableDefault, id) ==
  IF disableDefault.kind = "array" \/ (disableDefault.kind = "boolean" /\ disableDefault.value)
  THEN IF disableDefault.kind = "boolean"
       THEN FALSE
       ELSE ~\E k \in 1..Len(disableDefault.ids) : disableDefault.ids[k] = id
  ELSE TRUE

MapConverters(ids) == [k \in 1..Len(ids) |-> defaultConverters[ids[k]]]

\* the constructor with the built-in converters put before the custom ones
constructor_DefaultsFirst(input, options, global) ==
  LET eff == Options(options.ignores \o global.ignores,
                     options.converters \o global.converters,
                     options.disableDefault)
      kept(id) == DefaultEnabled(options.disableDefault, id)
  IN  [input |-> trim(input),
       options |-> eff,
       enabledConverters |-> MapConverters(SelectSeq(DefaultEntries, kept)) \o eff.converters]

\* the constructor with the global rules put before the local ones
constructor_GlobalFirst(input, options, global) ==
  LET eff == Options(global.ignores \o options.ignores,
                     global.converters \o options.converters,
                     options.disableDefault)
      kept(id) == DefaultEnabled(options.disableDefault, id)
  IN  [input |-> trim(input),
       options |-> eff,
       enabledConverters |-> eff.converters \o MapConverters(SelectSeq(DefaultEntries, kept))]

\* the constructor taking disableDefault from the global options when the local
\* options give none
constructor_GlobalDisable(input, options, global) ==
  LET disable == IF options.disableDefault = Undefined THEN global.disableDefault
                 ELSE options.disableDefault
      eff == Options(options.ignores \o global.ignores,
                     options.converters \o global.converters,
                     disable)
      kept(id) == DefaultEnabled(disable, id)
  IN  [input |-> trim(input),
       options |-> eff,
       enabledConverters |-> eff.converters \o MapConverters(SelectSeq(DefaultEntries, kept))]

\* constructor(input, options?)
constructor(input, options, global) ==
  LET eff == Options(options.ignores \o global.ignores,
                     options.converters \o global.converters,
                     options.disableDefault)
      kept(id) == DefaultEnabled(options.disableDefault, id)
  IN  [input |-> trim(input),
       options |-> eff,
       enabledConverters |-> eff.converters \o MapConverters(SelectSeq(DefaultEntries, kept))]

\* one pass of the ignore loop of parseWord: does this rule return the word?
RuleIgnores(rule, word) ==
  IF rule.kind = "string" /\ matches(word, rule.str, rule.caseInsensitive) THEN TRUE
  ELSE IF rule.kind = "regex" THEN RegexTest(rule.re, word)
  ELSE IF rule.kind = "array"
       THEN \* Array.find returns the element found, and `if` tests its truthiness
            LET hits == {k \in 1..Len(rule.strs) : matches(word, rule.strs[k], rule.caseInsensitive)}
            IN  hits # {} /\ rule.strs[CHOOSE k \in hits : \A j \in hits : k <= j] # <<>>
       ELSE FALSE

\* index of the first rule of the loop that returns, 0 when the loop ends
RECURSIVE FirstIgnore(_, _, _)
FirstIgnore(ignores, word, k) ==
  IF k > Len(ignores) THEN 0
  ELSE IF RuleIgnores(ignores[k], word) THEN k
  ELSE FirstIgnore(ignores, word, k + 1)

\* index of the first converter of the loop whose regex tests true, 0 when none
RECURSIVE FirstConverter(_, _, _)
FirstConverter(converters, word, k) ==
  IF k > Len(converters) THEN 0
  ELSE IF RegexTest(converters[k].regex, word) THEN k
  ELSE FirstConverter(converters, word, k + 1)

RECURSIVE toString(_, _)
RECURSIVE parseWord(_, _, _, _)
RECURSIVE toTitleCase(_, _)
RECURSIVE ApplyOperator(_, _, _, _, _, _)

\* the replace of the Mac converter with the group of the Mc one
replacePrefix_Mc(chunk, re, n) ==
  IF RegexTest(re, chunk)
  THEN SubSeq(chunk, 1, 2) \o <<" ">> \o SubSeq(chunk, 3, Len(chunk))
  ELSE chunk

\* chunk.replace(/^(mc)([A-Za-z]+)$/i, '$1 $2') and its Mac twin: n is the
\* length of the first group
replacePrefix(chunk, re, n) ==
  IF RegexTest(re, chunk)
  THEN SubSeq(chunk, 1, n) \o <<" ">> \o SubSeq(chunk, n + 1, Len(chunk))
  ELSE chunk

MapTitleCase(parts, global) == [k \in 1..Len(parts) |-> toTitleCase(parts[k], global)]

\* a split that stops at the first hyphen
HyphenParts_FirstOnly(chunk) ==
  IF ~\E i \in 1..Len(chunk) : chunk[i] = "-" THEN <<chunk>>
  ELSE LET i == CHOOSE i \in 1..Len(chunk) : chunk[i] = "-" /\ \A j \in 1..(i - 1) : chunk[j] # "-"
       IN  <<SubSeq(chunk, 1, i - 1), SubSeq(chunk, i + 1, Len(chunk))>>

\* chunk.split('-')
HyphenParts(chunk) == splitChar(chunk, "-")

\* the hyphen operator converting the parts as the words of one input
HyphenatedOperator_OneEngine(chunk, options, global) ==
  LET parts == HyphenParts(chunk)
      r == toString(constructor(join([k \in 1..Len(parts) |-> trim(parts[k])], <<" ">>),
                                options, global), global)
  IN  IF r.out = Thrown THEN Thrown
      ELSE join([k \in 1..Len(r.steps) |-> r.steps[k].out], <<"-">>)

\* defaultConverters[ConverterId.HYPENATED].operator
HyphenatedOperator(chunk, options, global) ==
  LET parts == HyphenParts(chunk)
      outs == [k \in 1..Len(parts) |->
                 toString(constructor(trim(parts[k]), options, global), global).out]
  IN  IF \E k \in 1..Len(parts) : outs[k] = Thrown THEN Thrown ELSE join(outs, <<"-">>)

\* the Mc operator joining prefix and remainder with the space of the replace
McOperator_JoinSpace(chunk, global) ==
  join(MapTitleCase(splitChar(replacePrefix(chunk, McRegex, 2), " "), global), <<" ">>)

\* defaultConverters[ConverterId.MC].operator
McOperator(chunk, global) ==
  join(MapTitleCase(splitChar(replacePrefix(chunk, McRegex, 2), " "), global), <<>>)

\* defaultConverters[ConverterId.MAC].operator
MacOperator(chunk, global) ==
  join(MapTitleCase(splitChar(replacePrefix(chunk, MacRegex, 3), " "), global), <<>>)

\* the apostrophe operator uppercasing the first letter at every position
DloApostrapheOperator_AlwaysUpper(chunk, index, global) ==
  LET suffix == toTitleCase(substring(chunk, 2, Len(chunk)), global)
  IN  toUpperCase(charAt(chunk, 0)) \o <<"'">> \o suffix

\* the apostrophe operator keeping the first letter at position 1 only
DloApostrapheOperator_SecondOnly(chunk, index, global) ==
  LET suffix == toTitleCase(substring(chunk, 2, Len(chunk)), global)
  IN  IF index = 1
      THEN charAt(chunk, 0) \o <<"'">> \o suffix
      ELSE toUpperCase(charAt(chunk, 0)) \o <<"'">> \o suffix

\* the apostrophe operator leaving the remainder as it is
DloApostrapheOperator_KeepSuffix(chunk, index, global) ==
  LET suffix == substring(chunk, 2, Len(chunk))
  IN  IF index # 0
      THEN charAt(chunk, 0) \o <<"'">> \o suffix
      ELSE toUpperCase(charAt(chunk, 0)) \o <<"'">> \o suffix

\* defaultConverters[ConverterId.DLO_APOSTRAPHE].operator
DloApostrapheOperator(chunk, index, global) ==
  LET suffix == toTitleCase(substring(chunk, 2, Len(chunk)), global)
  IN  IF index # 0
      THEN charAt(chunk, 0) \o <<"'">> \o suffix
      ELSE toUpperCase(charAt(chunk, 0)) \o <<"'">> \o suffix

\* defaultConverters[ConverterId.ROMAN_NUMERALS].operator
RomanNumeralsOperator(chunk) == toUpperCase(chunk)

\* the operator of the converter toTitleCase injects
SmallWordOperator(chunk, index, global) ==
  IF index # 0 THEN toLowerCase(chunk) ELSE toTitleCase(chunk, global)

\* the operator of a converter, called as operator(chunk, index, accumulated, options)
ApplyOperator(operator, chunk, index, accumulated, options, global) ==
  CASE operator = "HYPENATED" -> HyphenatedOperator(chunk, options, global)
    [] operator = "MC" -> McOperator(chunk, global)
    [] operator = "MAC" -> MacOperator(chunk, global)
    [] operator = "DLO_APOSTRAPHE" -> DloApostrapheOperator(chunk, index, global)
    [] operator = "ROMAN_NUMERALS" -> RomanNumeralsOperator(chunk)
    [] operator = "SMALL_WORD" -> SmallWordOperator(chunk, index, global)
    [] operator = "DE_INDEX" -> chunk \o <<"_">> \o numberToString(index)
    [] operator = "DE_ECHO" -> chunk
    [] operator = "THROWS" -> Thrown
    [] operator = "EMPTY" -> <<"E", "M", "P", "T", "Y">>
    [] operator = "MAC_CUSTOM" -> <<"A"," ","c","u","s","t","o","m"," ","s","t","r","i","n","g">>

\* parseWord with the converter loop run before the ignore loop
parseWord_ConvertersFirst(e, word, accumulated, global) ==
  LET rule == FirstIgnore(e.options.ignores, word, 1)
      conv == FirstConverter(e.enabledConverters, word, 1)
      step(kind, r, c, operator, out) ==
        [word |-> word, index |-> Len(accumulated), accumulated |-> accumulated,
         kind |-> kind, rule |-> r, conv |-> c, operator |-> operator, out |-> out]
  IN  IF conv # 0
      THEN step("convert", 0, conv, e.enabledConverters[conv].operator,
                ApplyOperator(e.enabledConverters[conv].operator, word,
                              Len(accumulated), accumulated, e.options, global))
      ELSE IF rule # 0 THEN step("ignore", rule, 0, "none", word)
           ELSE step("fallback", 0, 0, "none", toTitleCase(word, global))

\* private parseWord(word, accumulated): the value returned, with the rule or
\* converter that produced it
parseWord(e, word, accumulated, global) ==
  LET rule == FirstIgnore(e.options.ignores, word, 1)
      conv == FirstConverter(e.enabledConverters, word, 1)
      step(kind, r, c, operator, out) ==
        [word |-> word, index |-> Len(accumulated), accumulated |-> accumulated,
         kind |-> kind, rule |-> r, conv |-> c, operator |-> operator, out |-> out]
  IN  IF rule # 0 THEN step("ignore", rule, 0, "none", word)
      ELSE IF conv # 0
           THEN step("convert", 0, conv, e.enabledConverters[conv].operator,
                     ApplyOperator(e.enabledConverters[conv].operator, word,
                                   Len(accumulated), accumulated, e.options, global))
           ELSE step("fallback", 0, 0, "none", toTitleCase(word, global))

RECURSIVE ParseWords_RawTokens(_, _, _, _, _)
\* the loop of toString handing the operators the raw tokens seen so far
ParseWords_RawTokens(e, words, k, steps, global) ==
  IF k > Len(words) THEN steps
  ELSE IF steps # <<>> /\ steps[Len(steps)].out = Thrown THEN steps
  ELSE LET accumulated == [j \in 1..Len(steps) |-> steps[j].word]
       IN  ParseWords_RawTokens(e, words, k + 1,
                                Append(steps, parseWord(e, words[k], accumulated, global)), global)

RECURSIVE ParseWords_CatchAndGoOn(_, _, _, _, _)
\* the loop of toString going on with the next word after an operator threw
ParseWords_CatchAndGoOn(e, words, k, steps, global) ==
  IF k > Len(words) THEN steps
  ELSE LET accumulated == [j \in 1..Len(steps) |-> steps[j].out]
       IN  ParseWords_CatchAndGoOn(e, words, k + 1,
                                   Append(steps, parseWord(e, words[k], accumulated, global)), global)

RECURSIVE ParseWords(_, _, _, _, _)
\* the loop of toString over words[k..]
ParseWords(e, words, k, steps, global) ==
  IF k > Len(words) THEN steps
  ELSE IF steps # <<>> /\ steps[Len(steps)].out = Thrown THEN steps
  ELSE LET accumulated == [j \in 1..Len(steps) |-> steps[j].out]
       IN  ParseWords(e, words, k + 1,
                      Append(steps, parseWord(e, words[k], accumulated, global)), global)

\* toString(): the string returned and the steps of the loop
toString(e, global) ==
  LET steps == ParseWords(e, splitWhitespace(e.input), 1, <<>>, global)
  IN  [out |-> IF steps # <<>> /\ steps[Len(steps)].out = Thrown THEN Thrown
               ELSE join([j \in 1..Len(steps) |-> steps[j].out], <<" ">>),
       steps |-> steps]

\* the engine toTitleCase constructs for an input that contains whitespace
TitleEngine(input, global) ==
  constructor(input, Options(<<>>, <<SmallWordConverter>>, Undefined), global)

\* toTitleCase building its engine without the built-in converters
toTitleCase_DisableDefaults(input, global) ==
  IF RegexTest(WhitespaceRegex, input)
  THEN toString(constructor(input, Options(<<>>, <<SmallWordConverter>>, Bool(TRUE)), global),
                global).out
  ELSE toUpperCase(charAt(input, 0)) \o toLowerCase(substring(input, 1, Len(input)))

\* toTitleCase leaving the characters after the first as they are
toTitleCase_KeepRest(input, global) ==
  IF RegexTest(WhitespaceRegex, input)
  THEN toString(TitleEngine(input, global), global).out
  ELSE toUpperCase(charAt(input, 0)) \o substring(input, 1, Len(input))

\* static toTitleCase(input)
toTitleCase(input, global) ==
  IF RegexTest(WhitespaceRegex, input)
  THEN toString(TitleEngine(input, global), global).out
  ELSE toUpperCase(charAt(input, 0)) \o toLowerCase(substring(input, 1, Len(input)))

----------------------------------------------------------------------------
(* The rules and the words of the tests and of the README.                 *)

W_robbins == <<"r","o","b","b","i","n","s">>
W_MCDONALD == <<"M","C","D","O","N","A","L","D">>
W_macintosh == <<"m","a","c","i","n","t","o","s","h">>
W_Macdonald == <<"M","a","c","d","o","n","a","l","d">>
W_d_artagnan == <<"d","'","a","r","t","a","g","n","a","n">>
W_O_NEILL == <<"O","'","N","E","I","L","L">>
W_saint_claire == <<"s","a","i","n","t","-","c","l","a","i","r","e">>
W_d_arne_SMITH == <<"d","'","a","r","n","e","-","S","M","I","T","H">>
W_Al_shalah == <<"A","l","-","s","h","a","l","a","h">>
W_MIXEDcaseWord == <<"M","I","X","E","D","c","a","s","e","W","o","r","d">>
W_FRODO == <<"F","R","O","D","O">>
W_DeSantos == <<"D","e","S","a","n","t","o","s">>
W_GGG == <<"G","G","G">>
W_GG == <<"G","G">>
W_viii == <<"v","i","i","i">>
W_TRIGGER_GLOBAL == <<"T","R","I","G","G","E","R","_","G","L","O","B","A","L">>
W_DeSantos_mcm == <<"D","e","S","a","n","t","o","s","-","m","c","m">>
W_mc_GG_ == <<"m","c","-","G","G","-">>
W_dave == <<"d","a","v","e">>
W_of == <<"o","f">>
W_a_ == <<"a","-">>
W_iiii == <<"i", "i", "i", "i">>
W_ic == <<"i", "c">>
W_MMXX == <<"M", "M", "X", "X">>
W_OF == <<"O", "F">>
W_of_the == <<"o", "f", "-", "t", "h", "e">>
W_The == <<"T", "h", "e">>
W_and == <<"a", "n", "d">>
W_mice == <<"m", "i", "c", "e">>
W_mcm == <<"m","c","m">>
W_mixedcaseword == <<"m","i","x","e","d","c","a","s","e","w","o","r","d">>
W_frodo == <<"f","r","o","d","o">>
W_baggins == <<"b","a","g","g","i","n","s">>

\* new Converter(/^De[A-Z][a-z]+$/, (w, i) => `${w}_${i}`)
DeIndexConverter ==
  Converter([node |-> Cat(<<Bol, Chr({"D"}), Chr({"e"}), Chr(UpperSet),
                            Rep(Chr(LowerSet), 1, -1), Eol>>),
             ignoreCase |-> FALSE], "DE_INDEX")

\* new Converter(/^De[A-Za-z]+$/, chunk => chunk)
DeEchoConverter ==
  Converter([node |-> Cat(<<Bol, Chr({"D"}), Chr({"e"}), Rep(AZaz, 1, -1), Eol>>),
             ignoreCase |-> FALSE], "DE_ECHO")

MacNoVowelRegex ==
  [node |-> Cat(<<Bol, Chr({"M"}), Chr({"a"}), Chr({"c"}), NotChr({"a", "e", "i", "o", "u"})>>),
   ignoreCase |-> FALSE]

\* new Converter(/^Mac[^aeiou]/, () => 'A custom string')
MacCustomConverter == Converter(MacNoVowelRegex, "MAC_CUSTOM")

IgnoreTriggerGlobal == IgnoreRule_exact(W_TRIGGER_GLOBAL)
\* IgnoreRule.regex(/^G{3,}/)
IgnoreGGG ==
  IgnoreRule_regex([node |-> Cat(<<Bol, Rep(Chr({"G"}), 3, -1)>>), ignoreCase |-> FALSE])
IgnoreMixed == IgnoreRule_insensitive(W_mixedcaseword)
IgnoreFrodoBaggins == IgnoreRule_insensitiveArray(<<W_frodo, W_baggins>>)
\* IgnoreRule.regex(/^al-/i)
IgnoreAl ==
  IgnoreRule_regex([node |-> Cat(<<Bol, Chr({"a"}), Chr({"l"}), Chr({"-"})>>), ignoreCase |-> TRUE])
IgnoreGG == IgnoreRule_exact(W_GG)
\* createIgnoreRule('GG'), without the second argument
CreatedGG == createIgnoreRule("string", W_GG, <<>>, NoRegex, FALSE)
\* createIgnoreRule(5): a matcher that is no string, array or RegExp
UnsupportedRule == createIgnoreRule("number", <<>>, <<>>, NoRegex, FALSE)
\* IgnoreRule.exact(['', 'GG']) and IgnoreRule.exact('')
IgnoreEmptyOrGG == IgnoreRule_exactArray(<<<<>>, W_GG>>)
IgnoreEmpty == IgnoreRule_exact(<<>>)
\* IgnoreRule.regex(/-/): a regex without anchors
IgnoreHyphen == IgnoreRule_regex(HyphenRegex)
\* new Converter(/^$/, () => 'EMPTY')
EmptyConverter == Converter([node |-> Cat(<<Bol, Eol>>), ignoreCase |-> FALSE], "EMPTY")
\* new Converter(/^De[A-Za-z]+$/, () => { throw new Error() })
ThrowConverter == Converter(DeEchoConverter.regex, "THROWS")
IgnoreOF == IgnoreRule_exact(W_OF)
\* IgnoreRule.regex(/^Mac[^aeiou]/)
IgnoreMac == IgnoreRule_regex(MacNoVowelRegex)

----------------------------------------------------------------------------
(* Bounds and input universes.                                             *)

\* most words in an input
MaxWords == 2
\* most setGlobalOptions calls in a behaviour
MaxSets == 2

\* k copies of the word f, each followed by sep
RECURSIVE Lead(_, _, _)
Lead(f, sep, k) == IF k = 0 THEN <<>> ELSE f \o sep \o Lead(f, sep, k - 1)

\* the inputs that put a word of Words at a position below MaxWords, after
\* copies of a word of Fillers
InputsOf(Words, Fillers, sep) ==
  {Lead(f, sep, k) \o w : w \in Words, f \in Fillers, k \in 0..(MaxWords - 1)}

Words ==
  {W_MCDONALD, W_macintosh, W_Macdonald, W_d_artagnan, W_d_arne_SMITH, W_Al_shalah, W_MIXEDcaseWord, W_FRODO, W_DeSantos, W_GGG, W_GG, W_viii,
   W_TRIGGER_GLOBAL, W_DeSantos_mcm, W_mc_GG_, W_of}

Fillers == {W_dave, W_DeSantos}

Inputs == InputsOf(Words, Fillers, <<" ">>) \cup {<<>>}

LocalOptions ==
  {EmptyOptions,
   Options(<<>>, <<>>, Bool(TRUE)),
   Options(<<>>, <<>>, Ids(<<HYPENATED, MAC>>)),
   Options(<<IgnoreMixed, IgnoreAl>>, <<>>, Undefined),
   Options(<<IgnoreFrodoBaggins, IgnoreMac>>, <<MacCustomConverter, DeIndexConverter>>, Undefined),
   Options(<<IgnoreGG>>, <<DeIndexConverter>>, Undefined),
   Options(<<IgnoreGG>>, <<DeIndexConverter>>, Bool(TRUE)),
   Options(<<>>, <<MacCustomConverter, DeIndexConverter>>, Undefined),
   Options(<<>>, <<DeIndexConverter>>, Ids(<<HYPENATED, MAC>>)),
   Options(<<IgnoreMac>>, <<>>, Bool(FALSE))}

GlobalOptions ==
  {Options(<<IgnoreTriggerGlobal, IgnoreGGG>>, <<>>, Undefined),
   Options(<<IgnoreMac>>, <<DeEchoConverter>>, Ids(<<MAC>>))}

\* the values of disableDefault: absent, the booleans, and arrays that name
\* none, one, several or all of the built-in converters
DisableValues ==
  {Undefined, Bool(TRUE), Bool(FALSE), Ids(<<>>),
   Ids(<<HYPENATED>>), Ids(<<MC>>), Ids(<<MAC>>), Ids(<<DLO_APOSTRAPHE>>), Ids(<<ROMAN_NUMERALS>>),
   Ids(<<ROMAN_NUMERALS, MC, ROMAN_NUMERALS>>),
   Ids(<<HYPENATED, MC, MAC, DLO_APOSTRAPHE, ROMAN_NUMERALS>>)}

DefaultsOptions ==
  {Options(<<>>, <<>>, d) : d \in DisableValues}
    \cup {Options(<<IgnoreGG>>, <<DeIndexConverter>>, d) : d \in DisableValues}

DefaultsWords ==
  {W_MCDONALD, W_macintosh, W_d_artagnan, W_viii, W_saint_claire, W_d_arne_SMITH, W_DeSantos,
   W_GG, W_mcm}

DefaultsInputs == InputsOf(DefaultsWords, {W_dave, W_viii}, <<" ">>)

\* whitespace between words and around the input
Separators == {<<" ">>, <<" ", " ">>, <<"\t">>, <<" ", "\n", " ">>}
Margins == {<<>>, <<" ">>, <<"\t", " ">>}

WsWords == {W_MCDONALD, W_d_arne_SMITH, W_viii, W_GG, W_a_, W_Macdonald}

WsInputs ==
  {l \o i \o r : l \in Margins, r \in Margins,
                  i \in UNION {InputsOf(WsWords, {W_dave}, sep) : sep \in Separators} \cup {<<>>}}

WsOptions ==
  {EmptyOptions,
   Options(<<IgnoreGG>>, <<DeIndexConverter>>, Undefined),
   Options(<<>>, <<MacCustomConverter>>, Undefined)}

\* all strings over an alphabet, up to a length
StringsUpTo(alphabet, n) == UNION {[1..k -> alphabet] : k \in 0..n}

\* a string with its characters at odd positions uppercased
Alternate(s) == [i \in 1..Len(s) |-> IF i % 2 = 1 THEN ToUpperChar(s[i]) ELSE s[i]]

\* longest token of the Roman-numeral, Mc/Mac and apostrophe universes
MaxRoman == 3
MaxMc == 4
MaxDlo == 4

RomanLetters == {"m", "d", "c", "l", "x", "v", "i"}
RomanExamples == {W_viii, W_iiii, W_ic, W_mcm, W_MMXX}
RomanInputs ==
  StringsUpTo(RomanLetters, MaxRoman) \cup {Alternate(s) : s \in StringsUpTo(RomanLetters, MaxRoman)}
    \cup RomanExamples
RomanOptions == {EmptyOptions, Options(<<>>, <<>>, Ids(<<ROMAN_NUMERALS>>))}

McLetters == {"m", "M", "a", "A", "c", "D", "1"}
McInputs == StringsUpTo(McLetters, MaxMc)

DloLetters == {"d", "D", "o", "L", "'", "a"}
DloInputs ==
  LET words == StringsUpTo(DloLetters, MaxDlo)
                 \cup {W_MCDONALD, W_Macdonald, W_macintosh, W_viii, W_d_arne_SMITH}
  IN  words \cup {W_dave \o <<" ">> \o w : w \in words}

----------------------------------------------------------------------------
(* The state machine: the calls a program makes on the library.            *)

\* the words, inputs and global rules of the title-case calls
TitleWords ==
  {W_of, W_OF, W_The, W_and, W_mice, W_MCDONALD, W_viii, W_d_artagnan, W_TRIGGER_GLOBAL,
   W_DeSantos, W_a_, W_d_arne_SMITH, W_of_the, W_mc_GG_}
TitleInputs ==
  InputsOf(TitleWords, {W_mice, W_of}, <<" ">>)
    \cup {w \o <<" ">> : w \in TitleWords} \cup {<<"\t">> \o w : w \in TitleWords}
    \cup {<<>>, <<" ">>}
TitleGlobals ==
  {Options(<<IgnoreTriggerGlobal, IgnoreGGG>>, <<>>, Undefined),
   Options(<<IgnoreOF>>, <<>>, Undefined),
   Options(<<>>, <<DeEchoConverter>>, Undefined)}

\* every short token over letters of the Mc, Mac, apostrophe and Roman patterns
OverlapInputs ==
  StringsUpTo({"m", "a", "c", "D", "'", "i"}, MaxMc)
    \cup InputsOf({W_d_arne_SMITH, W_d_artagnan, W_saint_claire, W_viii, W_MCDONALD, W_macintosh,
                   W_a_, W_mcm},
                  {W_dave}, <<" ">>)

\* inputs and options that exercise every kind of ignore rule, the empty token
\* and an operator that throws
RuleWords ==
  {W_GG, W_GGG, W_FRODO, W_baggins, W_DeSantos, W_DeSantos_mcm, W_Al_shalah, W_MIXEDcaseWord,
   W_dave}
RuleInputs ==
  InputsOf(RuleWords, {W_dave, W_DeSantos}, <<" ">>)
    \cup {w \o <<" ">> \o W_dave : w \in RuleWords} \cup {<<>>, <<" ">>, <<"\t", " ">>}
RuleOptions ==
  {EmptyOptions,
   Options(<<IgnoreEmptyOrGG>>, <<EmptyConverter>>, Undefined),
   Options(<<IgnoreEmpty>>, <<EmptyConverter>>, Undefined),
   Options(<<>>, <<EmptyConverter>>, Undefined),
   Options(<<UnsupportedRule, IgnoreGGG>>, <<>>, Undefined),
   Options(<<CreatedGG, IgnoreHyphen>>, <<>>, Undefined),
   Options(<<IgnoreMixed, IgnoreFrodoBaggins, IgnoreAl>>, <<DeIndexConverter>>, Undefined),
   Options(<<>>, <<ThrowConverter>>, Undefined),
   Options(<<IgnoreGG>>, <<DeIndexConverter, ThrowConverter>>, Undefined),
   Options(<<IgnoreGGG>>, <<ThrowConverter>>, Bool(TRUE))}

NoEngine == [input |-> <<>>, options |-> EmptyOptions, enabledConverters |-> <<>>]
NoCall == [input |-> <<>>, options |-> EmptyOptions, builtAt |-> 0, ranAt |-> 0]

Init ==
  /\ globalOptions = EmptyOptions
  /\ engine = NoEngine
  /\ pc = "idle"
  /\ result = <<>>
  /\ trace = <<>>
  /\ written = <<>>
  /\ call = NoCall

\* setGlobalOptions merging the new rules into the ones already set
SetGlobalOptions_Merge(options) ==
  /\ Len(written) < MaxSets
  /\ globalOptions' = Options(globalOptions.ignores \o options.ignores,
                              globalOptions.converters \o options.converters,
                              options.disableDefault)
  /\ written' = Append(written, options)
  /\ UNCHANGED <<engine, pc, result, trace, call>>

\* static setGlobalOptions(options)
SetGlobalOptions(options) ==
  /\ Len(written) < MaxSets
  /\ globalOptions' = options
  /\ written' = Append(written, options)
  /\ UNCHANGED <<engine, pc, result, trace, call>>

\* new NameCaseConverter(input, options)
NewNameCaseConverter(input, options) ==
  /\ pc = "idle"
  /\ engine' = constructor(input, options, globalOptions)
  /\ call' = [input |-> input, options |-> options, builtAt |-> Len(written), ranAt |-> Len(written)]
  /\ pc' = "constructed"
  /\ result' = <<>>
  /\ trace' = <<>>
  /\ UNCHANGED <<globalOptions, written>>

\* toString leaving the engine's merged rule lists in the global options
CallToString_WritesBack ==
  /\ pc = "constructed"
  /\ LET r == toString(engine, globalOptions)
     IN  /\ result' = r.out
         /\ trace' = r.steps
  /\ call' = [call EXCEPT !.ranAt = Len(written)]
  /\ pc' = IF toString(engine, globalOptions).out = Thrown THEN "threw" ELSE "done"
  /\ globalOptions' = Options(engine.options.ignores, engine.options.converters,
                              globalOptions.disableDefault)
  /\ UNCHANGED <<engine, written>>

\* engine.toString()
CallToString ==
  /\ pc = "constructed"
  /\ LET r == toString(engine, globalOptions)
     IN  /\ result' = r.out
         /\ trace' = r.steps
  /\ call' = [call EXCEPT !.ranAt = Len(written)]
  /\ pc' = IF toString(engine, globalOptions).out = Thrown THEN "threw" ELSE "done"
  /\ UNCHANGED <<globalOptions, engine, written>>

\* toNameCase(input, options): the constructor and toString in one call
ToNameCase(input, options) ==
  /\ pc = "idle"
  /\ LET e == constructor(input, options, globalOptions)
         r == toString(e, globalOptions)
     IN  /\ engine' = e
         /\ result' = r.out
         /\ trace' = r.steps
  /\ call' = [input |-> input, options |-> options, builtAt |-> Len(written), ranAt |-> Len(written)]
  /\ pc' = IF toString(constructor(input, options, globalOptions), globalOptions).out = Thrown
           THEN "threw" ELSE "done"
  /\ UNCHANGED <<globalOptions, written>>

\* a further call that goes on with the accumulator of the call before
ToNameCaseAgain_KeepsAccumulated(input) ==
  /\ pc \in {"done", "again", "threw"}
  /\ LET e == [engine EXCEPT !.input = trim(input)]
         steps == ParseWords(e, splitWhitespace(e.input), 1,
                             IF result = Thrown THEN <<>> ELSE trace, globalOptions)
         threw == steps # <<>> /\ steps[Len(steps)].out = Thrown
     IN  /\ engine' = e
         /\ result' = IF threw THEN Thrown
                      ELSE join([j \in 1..Len(steps) |-> steps[j].out], <<" ">>)
         /\ trace' = steps
         /\ pc' = IF threw THEN "threw" ELSE "again"
  /\ call' = [call EXCEPT !.input = input, !.ranAt = Len(written)]
  /\ UNCHANGED <<globalOptions, written>>

\* a further toNameCase(input) / toString() on the instance of the call before
ToNameCaseAgain(input) ==
  /\ pc \in {"done", "again", "threw"}
  /\ LET e == [engine EXCEPT !.input = trim(input)]
         r == toString(e, globalOptions)
     IN  /\ engine' = e
         /\ result' = r.out
         /\ trace' = r.steps
         /\ pc' = IF r.out = Thrown THEN "threw" ELSE "again"
  /\ call' = [call EXCEPT !.input = input, !.ranAt = Len(written)]
  /\ UNCHANGED <<globalOptions, written>>

\* NameCaseConverter.toTitleCase(input) / toTitleCase(input)
ToTitleCase(input) ==
  /\ pc = "idle"
  /\ result' = toTitleCase(input, globalOptions)
  /\ call' = [input |-> input, options |-> EmptyOptions, builtAt |-> Len(written), ranAt |-> Len(written)]
  /\ engine' = NoEngine
  /\ trace' = IF RegexTest(WhitespaceRegex, input)
              THEN toString(TitleEngine(input, globalOptions), globalOptions).steps
              ELSE <<>>
  /\ pc' = IF toTitleCase(input, globalOptions) = Thrown THEN "threw" ELSE "titled"
  /\ UNCHANGED <<globalOptions, written>>

\* the caller drops the instance and the string it got
Discard ==
  /\ pc \in {"constructed", "done", "again", "titled", "threw"}
  /\ pc' = "idle"
  /\ engine' = NoEngine
  /\ call' = NoCall
  /\ result' = <<>>
  /\ trace' = <<>>
  /\ UNCHANGED <<globalOptions, written>>

Next ==
  \/ \E o \in GlobalOptions : SetGlobalOptions(o)
  \/ \E i \in Inputs, o \in LocalOptions : NewNameCaseConverter(i, o)
  \/ CallToString
  \/ \E i \in Inputs : ToTitleCase(i)
  \/ Discard

Spec == Init /\ [][Next]_vars

\* engines over every value of disableDefault
NextDefaults ==
  \/ \E o \in GlobalOptions : SetGlobalOptions(o)
  \/ \E i \in DefaultsInputs, o \in DefaultsOptions : NewNameCaseConverter(i, o)
  \/ CallToString
  \/ Discard

SpecDefaults == Init /\ [][NextDefaults]_vars

\* conversions of inputs with every kind of whitespace
NextWs ==
  \/ \E i \in WsInputs, o \in WsOptions : ToNameCase(i, o)
  \/ Discard

SpecWs == Init /\ [][NextWs]_vars

\* conversions of every short token over the Roman letters
NextRoman ==
  \/ \E i \in RomanInputs, o \in RomanOptions : ToNameCase(i, o)
  \/ Discard

SpecRoman == Init /\ [][NextRoman]_vars

\* conversions of every short token over the letters of Mc and Mac
NextMc ==
  \/ \E i \in McInputs : ToNameCase(i, EmptyOptions)
  \/ Discard

SpecMc == Init /\ [][NextMc]_vars

\* conversions of every short token over l, d, o and the apostrophe, at the
\* first position and at later ones
NextDlo ==
  \/ \E i \in DloInputs : ToNameCase(i, EmptyOptions)
  \/ Discard

SpecDlo == Init /\ [][NextDlo]_vars

\* title-case calls, and name-case calls with the default rules, under global rules
NextTitle ==
  \/ \E o \in TitleGlobals : SetGlobalOptions(o)
  \/ \E i \in TitleInputs : ToTitleCase(i)
  \/ \E i \in TitleInputs : ToNameCase(i, EmptyOptions)
  \/ Discard

SpecTitle == Init /\ [][NextTitle]_vars

\* conversions of every short token that the patterns of MC, MAC,
\* DLO_APOSTRAPHE and ROMAN_NUMERALS can match
NextOverlap ==
  \/ \E i \in OverlapInputs : ToNameCase(i, EmptyOptions)
  \/ Discard

SpecOverlap == Init /\ [][NextOverlap]_vars

\* global options that carry a disableDefault value
GlobalDisableOptions ==
  {Options(<<>>, <<>>, Bool(TRUE)),
   Options(<<IgnoreGG>>, <<DeIndexConverter>>, Ids(<<MAC, ROMAN_NUMERALS>>))}

LocalDisableOptions ==
  {Options(<<>>, <<>>, d) : d \in {Undefined, Bool(FALSE), Bool(TRUE), Ids(<<MC>>)}}

GlobalDisableInputs ==
  InputsOf({W_MCDONALD, W_macintosh, W_viii, W_d_arne_SMITH, W_GG, W_DeSantos}, {W_dave}, <<" ">>)

\* conversions under global options that name built-in converters to disable
NextGlobalDisable ==
  \/ \E o \in GlobalDisableOptions : SetGlobalOptions(o)
  \/ \E i \in GlobalDisableInputs, o \in LocalDisableOptions : NewNameCaseConverter(i, o)
  \/ CallToString
  \/ Discard

SpecGlobalDisable == Init /\ [][NextGlobalDisable]_vars

\* name-case calls over every kind of ignore rule, with the empty input and
\* with an operator that throws
NextRules ==
  \/ \E i \in RuleInputs, o \in RuleOptions : ToNameCase(i, o)
  \/ Discard

SpecRules == Init /\ [][NextRules]_vars

\* several conversions on one instance
NextReuse ==
  \/ \E i \in RuleInputs, o \in RuleOptions : ToNameCase(i, o)
  \/ \E i \in RuleInputs : ToNameCaseAgain(i)
  \/ Discard

SpecReuse == Init /\ [][NextReuse]_vars

----------------------------------------------------------------------------
(* Properties.                                                             *)

\* the global options in force when the engine was constructed
BuiltGlobal == IF call.builtAt = 0 THEN EmptyOptions ELSE written[call.builtAt]

\* the global options in force when toString / toTitleCase ran
RunGlobal == IF call.ranAt = 0 THEN EmptyOptions ELSE written[call.ranAt]

\* an ignore rule matches a word: equality (of the lowercased strings when the
\* rule is case-insensitive) with the string or a member of the array, or a
\* match of the regex
RuleMatchesWord(rule, word) ==
  CASE rule.kind = "string" ->
         IF rule.caseInsensitive THEN toLowerCase(word) = toLowerCase(rule.str)
         ELSE word = rule.str
    [] rule.kind = "array" ->
         \E s \in Range(rule.strs) :
           IF rule.caseInsensitive THEN toLowerCase(word) = toLowerCase(s) ELSE word = s
    [] rule.kind = "regex" -> RegexTest(rule.re, word)
    [] OTHER -> FALSE

AnyIgnoreMatches(rules, word) == \E r \in Range(rules) : RuleMatchesWord(r, word)

Matching(converters, word) ==
  {k \in 1..Len(converters) : RegexTest(converters[k].regex, word)}

Least(S) == CHOOSE k \in S : \A j \in S : k <= j

\* the built-in converters that a disableDefault value leaves, in declaration order
DeclaredDefaults == <<HYPENATED, MC, MAC, DLO_APOSTRAPHE, ROMAN_NUMERALS>>
KeptDefaults(disableDefault) ==
  LET named == IF disableDefault.kind = "array" THEN Range(disableDefault.ids) ELSE {}
      keeps(id) == id \notin named
  IN  IF disableDefault.kind = "boolean" /\ disableDefault.value THEN <<>>
      ELSE SelectSeq(DeclaredDefaults, keeps)

\* the converters of an engine in the order local, global, kept built-ins
ConverterOrder ==
  call.options.converters \o BuiltGlobal.converters
    \o [k \in 1..Len(KeptDefaults(call.options.disableDefault)) |->
          defaultConverters[KeptDefaults(call.options.disableDefault)[k]]]

\* C1: a token that some ignore rule of the engine (local or global) matches is
\* emitted verbatim and no converter operator is invoked for it, even when a
\* converter pattern matches the token too.
C1_IgnoreWins ==
  pc = "done" =>
    \A k \in 1..Len(trace) :
      AnyIgnoreMatches(call.options.ignores \o BuiltGlobal.ignores, trace[k].word)
        => /\ trace[k].out = trace[k].word
           /\ trace[k].kind = "ignore"
           /\ trace[k].operator = "none"

C1_Witness ==
  /\ pc = "done"
  /\ \E k \in 1..Len(trace) :
       /\ AnyIgnoreMatches(call.options.ignores \o BuiltGlobal.ignores, trace[k].word)
       /\ Matching(engine.enabledConverters, trace[k].word) # {}
       /\ trace[k].out = trace[k].word

\* C2: for a token that no ignore rule matches, the converters are tried in the
\* order local custom, global custom, enabled built-ins; the operator of the first
\* one whose pattern tests true is the one invoked and its value is emitted; when
\* none matches the token gets the fallback.
C2_FirstConverterWins ==
  pc = "done" =>
    \A k \in 1..Len(trace) :
      ~AnyIgnoreMatches(call.options.ignores \o BuiltGlobal.ignores, trace[k].word) =>
        LET m == Matching(ConverterOrder, trace[k].word)
        IN  IF m = {} THEN trace[k].kind = "fallback" /\ trace[k].operator = "none"
            ELSE /\ trace[k].kind = "convert"
                 /\ trace[k].conv = Least(m)
                 /\ trace[k].operator = ConverterOrder[Least(m)].operator
                 /\ trace[k].out =
                      ApplyOperator(ConverterOrder[Least(m)].operator, trace[k].word, k - 1,
                                    [j \in 1..(k - 1) |-> trace[j].out],
                                    engine.options, RunGlobal)

\* a custom converter and a built-in converter both match a token
C2_Witness ==
  /\ pc = "done"
  /\ \E k \in 1..Len(trace) :
       LET m == Matching(ConverterOrder, trace[k].word)
           custom == Len(call.options.converters) + Len(BuiltGlobal.converters)
       IN  /\ trace[k].kind = "convert"
           /\ \E a, b \in m : a <= custom /\ b > custom
           /\ trace[k].operator \in {"MAC_CUSTOM", "DE_INDEX", "DE_ECHO"}

\* C3: the effective ignores are the local ones followed by the global ones, and
\* so are the converters; a token a global ignore rule matches and a token a local
\* ignore rule matches are emitted verbatim; when a local and a global converter
\* both match a token that is not ignored, the first matching local converter
\* produces the output.
C3_LocalThenGlobal ==
  pc \in {"constructed", "done"} =>
    /\ engine.options.ignores = call.options.ignores \o BuiltGlobal.ignores
    /\ engine.options.converters = call.options.converters \o BuiltGlobal.converters
    /\ \A k \in 1..Len(trace) :
         LET w == trace[k].word
             ml == Matching(call.options.converters, w)
             mg == Matching(BuiltGlobal.converters, w)
         IN  /\ AnyIgnoreMatches(BuiltGlobal.ignores, w) => trace[k].out = w
             /\ AnyIgnoreMatches(call.options.ignores, w) => trace[k].out = w
             /\ (trace[k].kind # "ignore" /\ ml # {} /\ mg # {}) =>
                  /\ trace[k].operator = call.options.converters[Least(ml)].operator
                  /\ trace[k].out =
                       ApplyOperator(call.options.converters[Least(ml)].operator, w, k - 1,
                                     [j \in 1..(k - 1) |-> trace[j].out],
                                     engine.options, RunGlobal)

\* a local and a global converter both match a token, and a global ignore rule
\* applies beside local rules
C3_Witness ==
  /\ pc = "done"
  /\ call.options.ignores # <<>>
  /\ \E k \in 1..Len(trace) :
       /\ trace[k].kind = "convert"
       /\ Matching(call.options.converters, trace[k].word) # {}
       /\ Matching(BuiltGlobal.converters, trace[k].word) # {}
  /\ \E k \in 1..Len(trace) :
       /\ AnyIgnoreMatches(BuiltGlobal.ignores, trace[k].word)
       /\ ~AnyIgnoreMatches(call.options.ignores, trace[k].word)
       /\ trace[k].kind = "ignore"

Contains(s, c) == \E i \in 1..Len(s) : s[i] = c

\* the conversion of a word as a one-word input by an engine with the rules of
\* the engine under way
SameRulesConversion(part) ==
  toString([input |-> trim(part), options |-> engine.options,
            enabledConverters |-> engine.enabledConverters], RunGlobal).out

\* C7: for an engine that keeps HYPENATED, a token with a hyphen that no ignore
\* rule and no custom converter claims goes to HYPENATED, whatever other built-in
\* pattern it matches; its parts, split on "-", are each converted with the
\* effective rules of the engine (its ignores, custom converters and
\* disableDefault) and rejoined with "-".
C7_HyphenParts ==
  pc = "done" =>
    \A k \in 1..Len(trace) :
      LET w == trace[k].word
          parts == splitChar(w, "-")
      IN  (/\ Contains(w, "-")
           /\ ~AnyIgnoreMatches(call.options.ignores \o BuiltGlobal.ignores, w)
           /\ Matching(call.options.converters \o BuiltGlobal.converters, w) = {}
           /\ HYPENATED \in Range(KeptDefaults(call.options.disableDefault)))
          => /\ trace[k].operator = "HYPENATED"
             /\ trace[k].out =
                  join([p \in 1..Len(parts) |-> SameRulesConversion(parts[p])], <<"-">>)

\* the last element of the setGlobalOptions history, the empty options before
\* the first call
LastWritten == IF written = <<>> THEN EmptyOptions ELSE written[Len(written)]

\* C5: the global configuration is empty before the first setGlobalOptions call
\* and holds exactly the rules of the most recent call afterwards; an engine
\* constructed then uses the ignores and converters of that call and no rule
\* given only in an earlier call.
C5_LastWriteWins ==
  /\ globalOptions.ignores = LastWritten.ignores
  /\ globalOptions.converters = LastWritten.converters
  /\ (pc \in {"constructed", "done"}) =>
       /\ engine.options.ignores = call.options.ignores \o BuiltGlobal.ignores
       /\ engine.options.converters = call.options.converters \o BuiltGlobal.converters
       /\ \A k \in 1..Len(trace) :
            (/\ ~AnyIgnoreMatches(call.options.ignores \o BuiltGlobal.ignores, trace[k].word)
             /\ \E j \in 1..(call.builtAt - 1) : AnyIgnoreMatches(written[j].ignores, trace[k].word))
              => trace[k].kind # "ignore"

\* an engine built after two different setGlobalOptions calls converts a token
\* that a rule of the first call alone would have ignored
C5_Witness ==
  /\ pc = "done"
  /\ call.builtAt = 2
  /\ written[1] # written[2]
  /\ \E k \in 1..Len(trace) :
       /\ AnyIgnoreMatches(written[1].ignores, trace[k].word)
       /\ trace[k].kind # "ignore"

\* a word with its first character uppercased and the others lowercased
Capitalize(w) ==
  IF w = <<>> THEN <<>> ELSE <<ToUpperChar(w[1])>> \o toLowerCase(SubSeq(w, 2, Len(w)))

NoCustomRules ==
  /\ call.options.ignores = <<>> /\ BuiltGlobal.ignores = <<>>
  /\ call.options.converters = <<>> /\ BuiltGlobal.converters = <<>>

\* C4: disableDefault true removes the five built-in converters, an array removes
\* the ones it names and keeps the others, false, absent and the empty array keep
\* all five; custom converters and ignore rules, local and global, stay; with
\* disableDefault true and no custom converter or ignore rule every token gets
\* the title-case fallback.
C4_DisableDefault ==
  pc \in {"constructed", "done"} =>
    /\ engine.enabledConverters = ConverterOrder
    /\ engine.options.ignores = call.options.ignores \o BuiltGlobal.ignores
    /\ engine.options.converters = call.options.converters \o BuiltGlobal.converters
    /\ (call.options.disableDefault.kind \in {"undefined"}
          \/ call.options.disableDefault = Bool(FALSE)
          \/ call.options.disableDefault = Ids(<<>>))
         => Len(engine.enabledConverters) = Len(engine.options.converters) + 5
    /\ (call.options.disableDefault = Bool(TRUE) /\ NoCustomRules) =>
         \A k \in 1..Len(trace) :
           trace[k].kind = "fallback" /\ trace[k].out = Capitalize(trace[k].word)

\* an array that names some built-in converters: a token of a named one falls
\* through while another built-in converter still converts a token
C4_Witness ==
  /\ pc = "done"
  /\ call.options.disableDefault.kind = "array"
  /\ call.options.disableDefault.ids # <<>>
  /\ \E k \in 1..Len(trace) :
       /\ trace[k].kind = "fallback"
       /\ \E id \in Range(call.options.disableDefault.ids) :
            RegexTest(defaultConverters[id].regex, trace[k].word)
  /\ \E k \in 1..Len(trace) :
       trace[k].operator \in {"HYPENATED", "MC", "MAC", "DLO_APOSTRAPHE", "ROMAN_NUMERALS"}

\* the number of maximal runs of non-whitespace characters of a string
CountTokens(s) ==
  Cardinality({i \in 1..Len(s) : s[i] \notin WhiteSpace /\ (i = 1 \/ s[i - 1] \in WhiteSpace)})

\* the custom operators that ran returned non-empty strings without whitespace
CustomOutputsClean ==
  \A k \in 1..Len(trace) :
    trace[k].operator \in {"DE_INDEX", "DE_ECHO", "MAC_CUSTOM"} =>
      trace[k].out # <<>> /\ \A i \in 1..Len(trace[k].out) : trace[k].out[i] \notin WhiteSpace

\* C6: whatever whitespace the input holds, the output has no leading or trailing
\* whitespace, its only whitespace is one space between consecutive tokens, and
\* it has as many tokens as the input.
C6_SingleSpaces ==
  (pc = "done" /\ CustomOutputsClean) =>
    /\ \A i \in 1..Len(result) :
         result[i] \in WhiteSpace =>
           /\ result[i] = " "
           /\ 1 < i /\ i < Len(result)
           /\ result[i - 1] \notin WhiteSpace
           /\ result[i + 1] \notin WhiteSpace
    /\ CountTokens(result) = CountTokens(call.input)
    /\ Len(trace) = IF CountTokens(call.input) = 0 THEN 1 ELSE CountTokens(call.input)

\* an input with leading whitespace and a separator of several characters
C6_Witness ==
  /\ pc = "done"
  /\ CustomOutputsClean
  /\ Len(call.input) > 3
  /\ call.input[1] \in WhiteSpace
  /\ call.input[Len(call.input)] \in WhiteSpace
  /\ \E i \in 2..(Len(call.input) - 2) :
       /\ call.input[i] \notin WhiteSpace
       /\ call.input[i + 1] \in WhiteSpace /\ call.input[i + 2] = "\n"
  /\ CountTokens(result) = 2

\* some rule tried before the converter at place `at` of the engine claims the word
ClaimedBefore(w, at) ==
  \/ AnyIgnoreMatches(call.options.ignores \o BuiltGlobal.ignores, w)
  \/ \E j \in 1..(at - 1) : RegexTest(ConverterOrder[j].regex, w)

\* the place of a built-in converter among the converters of the engine, 0 when
\* it is disabled
PlaceOf(operator) ==
  IF \E j \in 1..Len(ConverterOrder) : ConverterOrder[j].operator = operator
  THEN CHOOSE j \in 1..Len(ConverterOrder) : ConverterOrder[j].operator = operator
  ELSE 0

\* the word starts with l, d or o, in either case, and an apostrophe
HasApostrophePrefix(w) ==
  Len(w) >= 2 /\ ToLowerChar(w[1]) \in {"l", "d", "o"} /\ w[2] = "'"

\* C8 as stated: the first letter is uppercased at position 0 and lowercased at
\* every later position, then the apostrophe, then the capitalized remainder.
C8_ApostropheLowercased ==
  pc = "done" =>
    \A k \in 1..Len(trace) :
      LET w == trace[k].word
      IN  (/\ PlaceOf("DLO_APOSTRAPHE") # 0
           /\ ~Contains(w, "-")
           /\ HasApostrophePrefix(w)
           /\ ~ClaimedBefore(w, PlaceOf("DLO_APOSTRAPHE")))
          => trace[k].out =
               <<IF k = 1 THEN ToUpperChar(w[1]) ELSE ToLowerChar(w[1])>> \o <<"'">>
                 \o Capitalize(SubSeq(w, 3, Len(w)))

\* C8, amended: the first letter is uppercased at position 0 and kept as it is
\* at every later position, then the apostrophe, then the capitalized remainder.
C8_ApostropheKept ==
  pc = "done" =>
    \A k \in 1..Len(trace) :
      LET w == trace[k].word
      IN  (/\ PlaceOf("DLO_APOSTRAPHE") # 0
           /\ ~Contains(w, "-")
           /\ HasApostrophePrefix(w)
           /\ ~ClaimedBefore(w, PlaceOf("DLO_APOSTRAPHE")))
          => /\ trace[k].operator = "DLO_APOSTRAPHE"
             /\ trace[k].out =
                  <<IF k = 1 THEN ToUpperChar(w[1]) ELSE w[1]>> \o <<"'">>
                    \o Capitalize(SubSeq(w, 3, Len(w)))

\* an apostrophe word at a later position whose uppercase first letter is kept
\* while its remainder changes
C8_Witness ==
  /\ pc = "done"
  /\ Len(trace) >= 2
  /\ \E k \in 2..Len(trace) :
       /\ trace[k].operator = "DLO_APOSTRAPHE"
       /\ trace[k].word[1] \in UpperSet
       /\ trace[k].out[1] = trace[k].word[1]
       /\ trace[k].out # trace[k].word

AllLetters(w) == \A i \in 1..Len(w) : w[i] \in LetterSet

\* the word is mc, or mac, in any letter case, followed by one letter or more
HasMcPrefix(w) ==
  Len(w) >= 3 /\ AllLetters(w) /\ toLowerCase(SubSeq(w, 1, 2)) = <<"m", "c">>
HasMacPrefix(w) ==
  Len(w) >= 4 /\ AllLetters(w) /\ toLowerCase(SubSeq(w, 1, 3)) = <<"m", "a", "c">>

\* C9: with MC and MAC enabled, a token mc + letters that no ignore rule or custom
\* converter claims is emitted as Mc + the capitalized remainder, a token
\* mac + letters as Mac + the capitalized remainder, in every letter case.
C9_McMac ==
  pc = "done" =>
    \A k \in 1..Len(trace) :
      LET w == trace[k].word
      IN  (/\ PlaceOf("MC") # 0 /\ PlaceOf("MAC") # 0
           /\ ~AnyIgnoreMatches(call.options.ignores \o BuiltGlobal.ignores, w)
           /\ Matching(call.options.converters \o BuiltGlobal.converters, w) = {})
          => /\ HasMcPrefix(w) =>
                  trace[k].out = <<"M", "c">> \o Capitalize(SubSeq(w, 3, Len(w)))
             /\ HasMacPrefix(w) =>
                  trace[k].out = <<"M", "a", "c">> \o Capitalize(SubSeq(w, 4, Len(w)))

\* a Mac token in mixed case
C9_Witness ==
  /\ pc = "done"
  /\ \E k \in 1..Len(trace) :
       /\ HasMacPrefix(trace[k].word)
       /\ trace[k].operator = "MAC"
       /\ trace[k].word[1] = "m" /\ trace[k].word[2] = "A" /\ trace[k].word[4] = "D"

\* the strings that M*(CM|CD|D?C{0,3})(XC|XL|L?X{0,3})(IX|IV|V?I{0,3}) generates
\* with at most n letters M
Times(c, k) == [i \in 1..k |-> c]
Group(one, five, ten) ==
  {<<one, ten>>, <<one, five>>}
    \cup {f \o Times(one, k) : f \in {<<>>, <<five>>}, k \in 0..3}
RomanGrammar(n) ==
  {Times("M", k) \o h \o x \o u :
     k \in 0..n, h \in Group("C", "D", "M"), x \in Group("X", "L", "C"),
     u \in Group("I", "V", "X")}
RomanLanguage == RomanGrammar(MaxRoman)

InGrammar(w) == w # <<>> /\ toUpperCase(w) \in RomanLanguage

\* C10: with ROMAN_NUMERALS enabled, a token that no earlier rule claims is
\* uppercased by the Roman converter exactly when it is a non-empty string of the
\* grammar, compared without case; with ROMAN_NUMERALS disabled, a token of the
\* grammar that no rule claims gets the title-case fallback.
C10_RomanNumerals ==
  pc = "done" =>
    \A k \in 1..Len(trace) :
      LET w == trace[k].word
          at == PlaceOf("ROMAN_NUMERALS")
      IN  /\ (at # 0 /\ ~ClaimedBefore(w, at)) =>
                /\ InGrammar(w) <=>
                     (trace[k].operator = "ROMAN_NUMERALS" /\ trace[k].out = toUpperCase(w))
                /\ ~InGrammar(w) => trace[k].operator # "ROMAN_NUMERALS"
          /\ (at = 0 /\ InGrammar(w) /\ ~ClaimedBefore(w, Len(ConverterOrder) + 1)) =>
                trace[k].kind = "fallback" /\ trace[k].out = Capitalize(w)

\* a mixed-case numeral of the longest length is uppercased
C10_Witness ==
  /\ pc = "done"
  /\ \E k \in 1..Len(trace) :
       /\ trace[k].operator = "ROMAN_NUMERALS"
       /\ Len(trace[k].word) = MaxRoman
       /\ trace[k].out # trace[k].word
       /\ trace[k].word # toLowerCase(trace[k].word)

HasWhitespace(s) == \E i \in 1..Len(s) : s[i] \in WhiteSpace

IsSmallWord(w) == toLowerCase(w) \in Range(SmallWords)

\* C11: in toTitleCase of an input that contains whitespace, a token that is one
\* of the small words, compared without case, is emitted in lowercase at every
\* position after the first and capitalized at the first position.
C11_SmallWords ==
  (pc = "titled" /\ HasWhitespace(call.input)) =>
    \A k \in 1..Len(trace) :
      IsSmallWord(trace[k].word) =>
        trace[k].out = IF k = 1 THEN Capitalize(trace[k].word) ELSE toLowerCase(trace[k].word)

\* C12: toTitleCase of an input without whitespace is the input with its first
\* character uppercased and the others lowercased, whatever rule matches it; the
\* same value is what convert emits for a token that no ignore rule and no
\* converter of the engine matches.
C12_SingleWord ==
  /\ (pc = "titled" /\ ~HasWhitespace(call.input)) => result = Capitalize(call.input)
  /\ pc = "done" =>
       \A k \in 1..Len(trace) :
         (/\ ~AnyIgnoreMatches(call.options.ignores \o BuiltGlobal.ignores, trace[k].word)
          /\ Matching(ConverterOrder, trace[k].word) = {})
         => trace[k].kind = "fallback" /\ trace[k].out = Capitalize(trace[k].word)

\* a one-word input that the MC pattern and a global ignore rule would match is
\* only capitalized
C12_Witness ==
  /\ pc = "titled"
  /\ call.input \in {W_MCDONALD, W_TRIGGER_GLOBAL}
  /\ AnyIgnoreMatches(RunGlobal.ignores, W_TRIGGER_GLOBAL)
  /\ result # call.input
  /\ result = Capitalize(call.input)

\* C13: the result of toTitleCase depends on the input alone: it is the result
\* under the empty global configuration, whatever global rules are set.
C13_NotConfigurable ==
  pc = "titled" => result = toTitleCase(call.input, EmptyOptions)

\* C14: under the empty global configuration, toTitleCase applied to its own
\* result returns that result.
C14_Idempotent ==
  (pc = "titled" /\ RunGlobal = EmptyOptions) =>
    toTitleCase(result, EmptyOptions) = result

\* C15: a token is ignored exactly when some ignore rule of the engine matches
\* it: a string matcher by equality (of the lowercased strings when the rule is
\* case-insensitive), an array matcher when some member equals it in that sense,
\* the empty token included, a regex matcher when it tests true anywhere in the
\* token; a rule made by createIgnoreRule without its second argument is the
\* rule IgnoreRule.exact makes.
C15_IgnoreMatching ==
  /\ CreatedGG = IgnoreGG
  /\ pc \in {"done", "threw"} =>
       \A k \in 1..Len(trace) :
         trace[k].kind = "ignore"
           <=> AnyIgnoreMatches(call.options.ignores \o BuiltGlobal.ignores, trace[k].word)

\* C16: the operator invoked for the token at position i gets i as its index and
\* the i values emitted for the tokens before it as its accumulated list; one
\* value is emitted per token, in order, and the result joins them.
C16_IndexAndAccumulated ==
  pc = "done" =>
    /\ Len(trace) = Len(splitWhitespace(trim(call.input)))
    /\ \A k \in 1..Len(trace) :
         /\ trace[k].word = splitWhitespace(trim(call.input))[k]
         /\ trace[k].index = k - 1
         /\ trace[k].accumulated = [j \in 1..(k - 1) |-> trace[j].out]
         /\ trace[k].operator = "DE_INDEX" =>
              trace[k].out = trace[k].word \o <<"_">> \o numberToString(k - 1)
    /\ result = join([j \in 1..Len(trace) |-> trace[j].out], <<" ">>)

\* a custom operator runs at position 1 after a token whose emitted value differs
\* from the raw token
C16_Witness ==
  /\ pc = "done"
  /\ Len(trace) = 2
  /\ trace[2].operator = "DE_INDEX"
  /\ trace[2].out = W_DeSantos \o <<"_", "1">>
  /\ trace[2].accumulated = <<trace[1].out>>
  /\ trace[1].out # trace[1].word

\* the converter that takes a word: the first one of the engine that matches it,
\* unless an ignore rule matches the word
Taker(w) ==
  IF AnyIgnoreMatches(call.options.ignores \o BuiltGlobal.ignores, w)
       \/ Matching(ConverterOrder, w) = {}
  THEN "none"
  ELSE ConverterOrder[Least(Matching(ConverterOrder, w))].operator

\* converting the word runs an operator that throws, for the word itself or for
\* a part of it when it is hyphenated
ThrowsOn(w) ==
  \/ Taker(w) = "THROWS"
  \/ /\ Taker(w) = "HYPENATED"
     /\ \E p \in Range(splitChar(w, "-")) : Taker(trim(p)) = "THROWS"

\* C17: when an operator throws for the token at position i the call ends with
\* that error and no string; the tokens before i were processed, the token at i
\* once, and no token after i; a call in which no operator throws returns a
\* string.
C17_ThrowPropagates ==
  LET words == splitWhitespace(trim(call.input))
      throwing == {k \in 1..Len(words) : ThrowsOn(words[k])}
  IN  /\ pc = "threw" =>
           /\ throwing # {}
           /\ result = Thrown
           /\ Len(trace) = Least(throwing)
           /\ \A k \in 1..Len(trace) : trace[k].word = words[k]
           /\ \A k \in 1..(Len(trace) - 1) : trace[k].out # Thrown
           /\ trace[Len(trace)].out = Thrown
      /\ pc = "done" => throwing = {} /\ result # Thrown

\* an operator throws for the first of several tokens
C17_Witness ==
  /\ pc = "threw"
  /\ Len(trace) = 1
  /\ trace[1].operator = "THROWS"
  /\ Len(splitWhitespace(trim(call.input))) = 2

\* C18: no ignore rule with a matcher that is neither a string, an array nor a
\* regex is ever part of an engine: its construction fails.
C18_UnsupportedRejected ==
  pc \in {"done", "threw"} =>
    \A k \in 1..Len(engine.options.ignores) :
      engine.options.ignores[k].kind \in {"string", "array", "regex"}

\* C19: for an input that is empty or only whitespace the result is the empty
\* string and no token is processed.
C19_EmptyInput ==
  (pc \in {"done", "threw"} /\ \A i \in 1..Len(call.input) : call.input[i] \in WhiteSpace) =>
    result = <<>> /\ trace = <<>>

\* C20: the result of an instance is the one its rule set at construction gives,
\* whatever setGlobalOptions call is made between its construction and toString.
C20_FixedAtConstruction ==
  pc = "done" => result = toString(engine, BuiltGlobal).out

\* the converters among MC, MAC, DLO_APOSTRAPHE and ROMAN_NUMERALS whose pattern
\* matches a word
MatchingDefaults(w) ==
  {id \in {MC, MAC, DLO_APOSTRAPHE, ROMAN_NUMERALS} : RegexTest(defaultConverters[id].regex, w)}

\* C21 as stated: no token matches two of the patterns of MC, MAC,
\* DLO_APOSTRAPHE and ROMAN_NUMERALS, and the operator of each converter that
\* matches a token gives the output the engine gives.
C21_MutuallyExclusive ==
  pc = "done" =>
    \A k \in 1..Len(trace) :
      /\ Cardinality(MatchingDefaults(trace[k].word)) <= 1
      /\ \A id \in MatchingDefaults(trace[k].word) :
           ApplyOperator(defaultConverters[id].operator, trace[k].word, k - 1,
                         trace[k].accumulated, engine.options, EmptyOptions) = trace[k].out

\* C21, amended: a token matches at most one of the four patterns, or it matches
\* MC and ROMAN_NUMERALS and no other; then MC, declared first, converts it, and
\* its output differs from the uppercased token ROMAN_NUMERALS would give.
C21_McRomanOverlap ==
  pc = "done" =>
    \A k \in 1..Len(trace) :
      LET w == trace[k].word
      IN  \/ Cardinality(MatchingDefaults(w)) <= 1
          \/ /\ MatchingDefaults(w) = {MC, ROMAN_NUMERALS}
             /\ trace[k].operator = "MC"
             /\ trace[k].out = <<"M", "c">> \o Capitalize(SubSeq(w, 3, Len(w)))
             /\ trace[k].out # toUpperCase(w)

\* a token that the patterns of MC and ROMAN_NUMERALS both match
C21_Witness ==
  /\ pc = "done"
  /\ Len(trace) = 1
  /\ MatchingDefaults(trace[1].word) = {MC, ROMAN_NUMERALS}
  /\ trace[1].out = <<"M", "c", "M">>

\* C22: for an input that contains whitespace, toTitleCase returns what convert
\* returns for that input with the small-word converter as its only custom
\* converter and the five built-in converters enabled: a token that is no small
\* word is name-cased (an Mc token becomes Mc + capitalized remainder).
C22_TitleIsConvert ==
  (pc = "titled" /\ HasWhitespace(call.input)) =>
    /\ result =
         toString(constructor(call.input, Options(<<>>, <<SmallWordConverter>>, Undefined),
                              RunGlobal), RunGlobal).out
    /\ \A k \in 1..Len(trace) :
         LET w == trace[k].word
         IN  (/\ RegexTest(McRegex, w)
              /\ ~AnyIgnoreMatches(RunGlobal.ignores, w)
              /\ Matching(RunGlobal.converters, w) = {})
             => trace[k].out = <<"M", "c">> \o Capitalize(SubSeq(w, 3, Len(w)))

\* a title of a small word and an Mc token
C22_Witness ==
  /\ pc = "titled"
  /\ Len(trace) = 2
  /\ trace[1].operator = "SMALL_WORD"
  /\ trace[2].operator = "MC"
  /\ trace[2].out # Capitalize(trace[2].word)

\* C24: the calls return, with recursion one level deep: a token holds no
\* whitespace, so the title-case calls made for it take the single-word path,
\* and no part of a hyphenated token holds a hyphen or whitespace, so the engine
\* built for a part has one token, which HYPENATED does not match.
C24_ShallowRecursion ==
  pc \in {"done", "titled"} =>
    \A k \in 1..Len(trace) :
      /\ ~HasWhitespace(trace[k].word)
      /\ trace[k].operator = "HYPENATED" =>
           \A j \in 1..Len(HyphenParts(trace[k].word)) :
             LET part == HyphenParts(trace[k].word)[j]
             IN  /\ ~Contains(part, "-")
                 /\ ~HasWhitespace(part)
                 /\ Len(splitWhitespace(trim(part))) = 1
                 /\ ~RegexTest(HyphenRegex, trim(part))

\* a title whose first token is a small word and whose second has two hyphens
C24_Witness ==
  /\ pc = "titled"
  /\ Len(trace) = 2
  /\ trace[1].operator = "SMALL_WORD"
  /\ trace[2].operator = "HYPENATED"
  /\ Len(HyphenParts(trace[2].word)) = 3

\* C25: whatever the position of a hyphenated token, each of its parts is
\* converted as the first token of an input: a part with an apostrophe prefix
\* gets its first letter uppercased, and in a title a part that is a small word
\* is capitalized, when no ignore rule or custom converter claims the part.
C25_PartsAtPositionZero ==
  pc \in {"done", "titled"} =>
    \A k \in 1..Len(trace) :
      trace[k].operator = "HYPENATED" =>
        LET parts == splitChar(trace[k].word, "-")
            outs == splitChar(trace[k].out, "-")
        IN  /\ Len(outs) = Len(parts)
            /\ \A j \in 1..Len(parts) :
                 LET p == parts[j]
                     free == /\ ~AnyIgnoreMatches(RunGlobal.ignores, p)
                             /\ Matching(RunGlobal.converters, p) = {}
                 IN  /\ (free /\ HasApostrophePrefix(p) /\ ~(pc = "titled" /\ IsSmallWord(p))) =>
                          outs[j] = <<ToUpperChar(p[1]), "'">> \o Capitalize(SubSeq(p, 3, Len(p)))
                     /\ (pc = "titled" /\ IsSmallWord(p) /\ ~AnyIgnoreMatches(RunGlobal.ignores, p)) =>
                          outs[j] = Capitalize(p)

\* a hyphenated token at a later position whose first part has a lowercase
\* apostrophe prefix, and one whose second part is a small word, in a title
C25_Witness ==
  /\ pc = "titled"
  /\ Len(trace) = 2
  /\ trace[2].operator = "HYPENATED"
  /\ \/ /\ trace[2].word = W_d_arne_SMITH
        /\ trace[2].out[1] = "D"
     \/ /\ trace[2].word = W_of_the
        /\ trace[2].out = <<"O", "f", "-", "T", "h", "e">>

TokenOutput(w, first) ==
  IF first THEN toString(constructor(w, EmptyOptions, EmptyOptions), EmptyOptions).out
  ELSE toString(constructor(W_mice \o <<" ">> \o W_GG \o <<" ">> \o w, EmptyOptions, EmptyOptions),
                EmptyOptions).steps[3].out

\* C27: under the default configuration the output of a non-empty trimmed input
\* has as many space-separated tokens as the input, and output token i is what
\* input token i gives alone when i is 0 and what it gives behind any other
\* tokens when i is not 0.
C27_TokenLocal ==
  (pc = "done" /\ trim(call.input) # <<>>) =>
    /\ Len(trace) = Len(splitWhitespace(trim(call.input)))
    /\ Len(splitChar(result, " ")) = Len(trace)
    /\ \A k \in 1..Len(trace) :
         /\ splitChar(result, " ")[k] = trace[k].out
         /\ trace[k].out = TokenOutput(trace[k].word, k = 1)

\* a token whose output depends on its being first or not, at a later position
C27_Witness ==
  /\ pc = "done"
  /\ Len(trace) = 2
  /\ trace[2].out # TokenOutput(trace[2].word, TRUE)
  /\ trace[2].out = TokenOutput(trace[2].word, FALSE)
  /\ trace[2].out # trace[2].word

\* C28: under the default configuration converting the output of a conversion
\* gives that output again, token by token at the same positions.
C28_ConvertIdempotent ==
  pc = "done" =>
    LET again == toString(constructor(result, EmptyOptions, EmptyOptions), EmptyOptions)
    IN  /\ again.out = result
        /\ Len(again.steps) = Len(trace)
        /\ \A k \in 1..Len(trace) :
             /\ again.steps[k].word = trace[k].out
             /\ again.steps[k].out = trace[k].out

\* a conversion that changes its input: an Mc token that is also a Roman
\* numeral, or an apostrophe token at a later position
C28_Witness ==
  /\ pc = "done"
  /\ result # call.input
  /\ \E k \in 1..Len(trace) :
       \/ trace[k].operator = "MC" /\ RegexTest(RomanRegex, trace[k].word)
       \/ k > 1 /\ trace[k].operator = "DLO_APOSTRAPHE"

====
